---- MODULE Spec2Model ----
\* Model of src/main.py: the props refresh job fetch_nfl_props, the published
\* snapshot latest_props_data guarded by data_lock, and the three Flask
\* readers index, api_props and health.
\*
\* Conventions
\*   - Python None / an absent JSON key is the empty tuple <<>>; a present
\*     value x is <<x>>.
\*   - Player names are sequences of one-character strings, so that
\*     str.split() and Series.str.contains() are computed, not assumed.
\*   - A betting line (the outcome's "point") and season_avg are integers in
\*     tenths: 555 is 55.5.  The cushion products line * 1.2 and line * 1.3
\*     are compared exactly (100 * val > 12 * line); on half-integer lines and
\*     integer stat values the float comparison of the code agrees with it.
\*   - A timestamp (datetime.now(ET).isoformat()) is the tick of the clock at
\*     which the run was started.
EXTENDS Integers, Sequences, FiniteSets, TLC

\* ------------------------------------------------------------------ bounds
\* runs of fetch_nfl_props that are started
MaxRuns == 2
\* weeks of the season present in the play-by-play feed
MaxWeek == 5
\* outcomes the odds provider returns during one run, over all events
MaxLines == 2

\* ------------------------------------------------------------ Python values
None == <<>>
Some(x) == <<x>>

\* float('nan'): weekly_stats["week"].max() of an empty table.  Weeks are >= 1,
\* so every comparison the code makes against it is false, as with a NaN.
NaN == -1

EmptyDict == [k \in {} |-> 0]

\* --------------------------------------------------------------- strings
\* str.lower() on one character (case=False of str.contains)
Lower(c) ==
    CASE c = "A" -> "a"
      [] c = "B" -> "b"
      [] c = "G" -> "g"
      [] c = "R" -> "r"
      [] c = "S" -> "s"
      [] c = "W" -> "w"
      [] c = "Z" -> "z"
      [] OTHER -> c

\* str.split(): the maximal runs of non-blank characters, in order
RECURSIVE SplitFrom(_, _, _)
SplitFrom(s, i, cur) ==
    IF i > Len(s)
    THEN IF cur = <<>> THEN <<>> ELSE <<cur>>
    ELSE IF s[i] = " "
         THEN IF cur = <<>>
              THEN SplitFrom(s, i + 1, <<>>)
              ELSE <<cur>> \o SplitFrom(s, i + 1, <<>>)
         ELSE SplitFrom(s, i + 1, Append(cur, s[i]))

Split(s) == SplitFrom(s, 1, <<>>)

\* One pattern character of the regular expression against one character of
\* the subject, ignoring case; "." matches any character.
MatchChar(p, c) == p = "." \/ Lower(p) = Lower(c)

\* Series.str.contains(pat, case=False): pat, read as a regular expression
\* of literal characters and ".", matches somewhere in the subject.
Contains(subject, pat) ==
    \E i \in 1..(Len(subject) - Len(pat) + 1) :
        \A j \in 1..Len(pat) : MatchChar(pat[j], subject[i + j - 1])

\* ----------------------------------------------------------- market tables
market_to_stat ==
    [player_pass_yds_alternate |-> "passing_yards",
     player_pass_tds_alternate |-> "passing_tds",
     player_rush_yds_alternate |-> "rushing_yards",
     player_rush_attempts_alternate |-> "rush_attempts",
     player_receptions_alternate |-> "receptions",
     player_reception_yds_alternate |-> "receiving_yards"]

\* "yds" in market
HasYds(market) ==
    market \in {"player_pass_yds_alternate", "player_rush_yds_alternate",
                "player_reception_yds_alternate"}

\* "attempts" in market or "receptions" in market
HasAttemptsOrReceptions(market) ==
    market \in {"player_rush_attempts_alternate", "player_receptions_alternate"}

\* market.replace('_', ' ').title()
MarketTitle(market) ==
    CASE market = "player_pass_yds_alternate" -> "Player Pass Yds Alternate"
      [] market = "player_pass_tds_alternate" -> "Player Pass Tds Alternate"
      [] market = "player_rush_yds_alternate" -> "Player Rush Yds Alternate"
      [] market = "player_rush_attempts_alternate" -> "Player Rush Attempts Alternate"
      [] market = "player_receptions_alternate" -> "Player Receptions Alternate"
      [] market = "player_reception_yds_alternate" -> "Player Reception Yds Alternate"

\* ------------------------------------------------------------ arithmetic
RECURSIVE SumSeq(_)
SumSeq(s) == IF s = <<>> THEN 0 ELSE s[1] + SumSeq(Tail(s))

\* a rounding that sends a tie to the tenth above
RoundTenths_HalfUp(num, den) ==
    LET q == (10 * num) \div den
        r == (10 * num) % den
    IN  IF 2 * r < den THEN q ELSE q + 1

\* round(x, 1) of x = num / den, in tenths; a tie goes to the even tenth
RoundTenths(num, den) ==
    LET q == (10 * num) \div den
        r == (10 * num) % den
    IN  IF 2 * r < den THEN q
        ELSE IF 2 * r > den THEN q + 1
        ELSE IF q % 2 = 0 THEN q ELSE q + 1

\* the largest week of a non-empty table
MaxWeekOf(rows) ==
    LET weeks == {rows[i].week : i \in 1..Len(rows)}
    IN  CHOOSE w \in weeks : \A v \in weeks : v <= w

\* weekly_stats["week"].max()
CurrentWeek(weekly_stats) ==
    IF weekly_stats = <<>> THEN NaN ELSE MaxWeekOf(weekly_stats)

\* --------------------------------------------------- qualification check
Returned(ok, vals) == [raised |-> None, ok |-> ok, vals |-> vals]
Raised(msg) == [raised |-> Some(msg), ok |-> FALSE, vals |-> <<>>]

\* the Over test without the 20% and 30% cushions
ValPasses_NoCushion(val, line, side, market) ==
    IF side = "Over" THEN 10 * val > line ELSE FALSE

\* the else branch of line 206 passing every value of an Under line
ValPasses_UnderAccepted(val, line, side, market) ==
    IF side = "Over"
    THEN IF HasYds(market) THEN 100 * val > 12 * line
         ELSE IF HasAttemptsOrReceptions(market) THEN 100 * val > 13 * line
         ELSE 10 * val > line
    ELSE TRUE

\* the test one weekly value must pass inside the loop of qualifies_strong
ValPasses(val, line, side, market) ==
    IF side = "Over"
    THEN IF HasYds(market) THEN 100 * val > 12 * line
         ELSE IF HasAttemptsOrReceptions(market) THEN 100 * val > 13 * line
         ELSE 10 * val > line
    ELSE FALSE

\* the values taken most recent week first
Column_MostRecentFirst(rows, stat_col) ==
    [i \in 1..Len(rows) |-> rows[Len(rows) - i + 1][stat_col]]

\* list(player_games[stat_col].values)
Column(rows, stat_col) == [i \in 1..Len(rows) |-> rows[i][stat_col]]

\* weekly_stats[(season == 2025) & player.str.contains(last_name, case=False)]
PlayerGames(weekly_stats, last_name) ==
    SelectSeq(weekly_stats,
              LAMBDA r : r.season = 2025 /\ Contains(r.player, last_name))

\* the length test of line 190 left out
InsufficientHistory_EmptyOnly(player_games, current_week) ==
    player_games = <<>>

\* player_games.empty or len(player_games) < current_week - 1
InsufficientHistory(player_games, current_week) ==
    player_games = <<>> \/ Len(player_games) < current_week - 1

qualifies_strong(player_full_name, stat_col, line, side, market, weekly_stats, current_week) ==
    IF player_full_name = None
    THEN Raised("'NoneType' object has no attribute 'split'")
    ELSE LET tokens == Split(player_full_name[1]) IN
         IF tokens = <<>>
         THEN Raised("list index out of range")
         ELSE LET last_name == tokens[Len(tokens)]
                  player_games == PlayerGames(weekly_stats, last_name)
                  vals == Column(player_games, stat_col)
              IN  IF InsufficientHistory(player_games, current_week)
                  THEN Returned(FALSE, <<>>)
                  ELSE Returned(\A i \in 1..Len(vals) :
                                    ValPasses(vals[i], line, side, market),
                                vals)

\* ------------------------------------------------------------ the events
\* An event's commence_time, as far as the code reads it: the number of days
\* between today and the game date (both Eastern), and a kickoff label that
\* stands for the instant.
Game1 == [id |-> "ev1", home_team |-> "Bills", away_team |-> "Jets",
          commence_time |-> [kickoff |-> "k1", days_until |-> 0]]
Game2 == [id |-> "ev2", home_team |-> "Eagles", away_team |-> "Giants",
          commence_time |-> [kickoff |-> "k2", days_until |-> 3]]

\* should_include_game, the closure get_upcoming_games_filter returns;
\* weekday is now_et.weekday(), 0 = Monday
should_include_game(weekday, game_time_str) ==
    LET days_until == game_time_str.days_until
        game_weekday == (weekday + days_until) % 7
    IN  IF weekday = 0 THEN days_until = 0
        ELSE IF weekday \in {1, 2}
             THEN game_weekday = 3 /\ 0 < days_until /\ days_until <= 7
        ELSE IF weekday = 3 THEN days_until = 0
        ELSE IF weekday \in {4, 5} THEN 0 <= days_until /\ days_until <= 3
        ELSE 0 <= days_until /\ days_until <= 1

\* strftime("%a %m/%d %I:%M%p ET") of the kickoff instant
format_game_time(game_time_str) ==
    CASE game_time_str.kickoff = "k1" -> "01:00PM ET"
      [] game_time_str.kickoff = "k2" -> "08:15PM ET"

\* f"{away} @ {home}"
Matchup(ev) == <<ev.away_team, "@", ev.home_team>>

\* events_to_check = [ev for ev in events if game_filter(ev["commence_time"])]
EventsToCheck(events, weekday) ==
    SelectSeq(events, LAMBDA ev : should_include_game(weekday, ev.commence_time))

\* games_info
GamesInfo(events_to_check) ==
    [i \in 1..Len(events_to_check) |->
        [matchup |-> Matchup(events_to_check[i]),
         time |-> format_game_time(events_to_check[i].commence_time)]]

\* ------------------------------------------------------- collecting props
\* odds is not None and -600 <= odds <= -150
InOddsRange(odds) == odds # None /\ -600 <= odds[1] /\ odds[1] <= -150

\* The props one event contributes.  game_data is the event's odds response
\* flattened in the order the three nested loops visit it: one record per
\* (bookmaker, market, outcome).
EventProps(ev, game_data) ==
    LET kept == SelectSeq(game_data, LAMBDA o : InOddsRange(o.price))
    IN  [i \in 1..Len(kept) |->
            [game |-> Matchup(ev),
             game_time |-> format_game_time(ev.commence_time),
             market |-> kept[i].market,
             player |-> kept[i].description,
             side |-> kept[i].name,
             line |-> kept[i].point,
             odds |-> kept[i].price[1]]]

RECURSIVE CollectFrom(_, _, _)
CollectFrom(events_to_check, responses, i) ==
    IF i > Len(events_to_check) THEN <<>>
    ELSE EventProps(events_to_check[i], responses[i])
            \o CollectFrom(events_to_check, responses, i + 1)

\* step 3: props, over every event to check
CollectProps(events_to_check, responses) ==
    CollectFrom(events_to_check, responses, 1)

\* ------------------------------------------------- filtering and dedup
\* one element of qualifying
QualifyingEntry(p, vals) ==
    [game |-> p.game,
     game_time |-> p.game_time,
     market |-> MarketTitle(p.market),
     player |-> p.player,
     side |-> p.side,
     line |-> p.line,
     odds |-> p.odds,
     season_avg |-> IF vals = <<>> THEN 0 ELSE RoundTenths(SumSeq(vals), Len(vals)),
     weekly_values |-> vals]

\* step 7: the loop over props from index i on, qualifying being the list
\* built so far; an exception of qualifies_strong ends the loop
RECURSIVE FilterFrom(_, _, _, _, _)
FilterFrom(props, i, qualifying, weekly_stats, current_week) ==
    IF i > Len(props) THEN [raised |-> None, qualifying |-> qualifying]
    ELSE LET p == props[i] IN
         IF p.market \notin DOMAIN market_to_stat
         THEN FilterFrom(props, i + 1, qualifying, weekly_stats, current_week)
         ELSE LET r == qualifies_strong(p.player, market_to_stat[p.market], p.line,
                                        p.side, p.market, weekly_stats, current_week)
              IN  IF r.raised # None
                  THEN [raised |-> r.raised, qualifying |-> qualifying]
                  ELSE FilterFrom(props, i + 1,
                                  IF r.ok THEN Append(qualifying, QualifyingEntry(p, r.vals))
                                  ELSE qualifying,
                                  weekly_stats, current_week)

FilterQualifying(props, weekly_stats, current_week) ==
    FilterFrom(props, 1, <<>>, weekly_stats, current_week)

\* drop_duplicates told to compare the game column as well
DedupKey_WithGame(q) == <<q.player, q.market, q.line, q.side, q.game>>

\* the columns drop_duplicates compares
DedupKey(q) == <<q.player, q.market, q.line, q.side>>

RECURSIVE DropFrom(_, _)
DropFrom(rows, i) ==
    IF i > Len(rows) THEN <<>>
    ELSE IF \E j \in 1..(i - 1) : DedupKey(rows[j]) = DedupKey(rows[i])
         THEN DropFrom(rows, i + 1)
         ELSE <<rows[i]>> \o DropFrom(rows, i + 1)

\* step 8: df.drop_duplicates(subset=[player, market, line, side]), keeping
\* the first row of each key; an empty frame is left alone
Deduplicate(qualifying) ==
    IF qualifying = <<>> THEN qualifying ELSE DropFrom(qualifying, 1)

\* ------------------------------------------------------------ snapshots
\* the module-level initial value of latest_props_data
InitialData ==
    [last_updated |-> None, props |-> <<>>, summary |-> EmptyDict, error |-> None]

\* the dict published when no event passes the filter
NoGamesData(t) ==
    [last_updated |-> Some(t),
     props |-> <<>>,
     summary |-> [total_games |-> 0, total_props |-> 0],
     error |-> Some("No relevant NFL games found")]

\* the dict published at the end of a successful run
SuccessData(t, res) ==
    [last_updated |-> Some(t),
     current_day |-> t,
     current_week |-> res.current_week,
     games |-> res.games,
     props |-> res.props,
     summary |-> [total_games |-> res.total_games,
                  total_props |-> Len(res.props),
                  odds_range |-> "-600 to -150",
                  cushion |-> "20% for yards, 30% for attempts/receptions"],
     error |-> None]

\* the fields every snapshot has
CoreFields == {"last_updated", "props", "summary", "error"}

\* ------------------------------------------------------------- the inputs
\* display names of the odds provider
GarrettWilson == <<"G","a","r","r","e","t","t"," ","W","i","l","s","o","n">>
ZachSmith == <<"Z","a","c","h"," ","S","m","i","t","h">>
EmptyName == <<>>

\* player names of the play-by-play feed, in the order groupby sorts them
ABrown == <<"A",".","B","r","o","w","n">>
GWilson == <<"G",".","W","i","l","s","o","n">>
RWilson == <<"R",".","W","i","l","s","o","n">>
Roster == <<ABrown, GWilson, RWilson>>

\* the yardage and the count a player of the roster records in a week
YardsByWeek == <<110, 60, 95, 80, 70, 85>>
CountByWeek == <<7, 4, 6, 5, 5, 6>>

YardsOf(p, w) ==
    IF Roster[p] = GWilson THEN YardsByWeek[((w - 1) % Len(YardsByWeek)) + 1]
    ELSE IF Roster[p] = RWilson THEN 20 ELSE 100

CountOf(p, w) ==
    IF Roster[p] = GWilson THEN CountByWeek[((w - 1) % Len(CountByWeek)) + 1]
    ELSE IF Roster[p] = RWilson THEN 2 ELSE 8

\* one row of weekly_stats
StatRow(p, w) ==
    [season |-> 2025, week |-> w, player |-> Roster[p],
     passing_yards |-> YardsOf(p, w), passing_tds |-> CountOf(p, w),
     rushing_yards |-> YardsOf(p, w), rush_attempts |-> CountOf(p, w),
     receiving_yards |-> YardsOf(p, w), receptions |-> CountOf(p, w)]

StatRows(cells) == [i \in 1..Len(cells) |-> StatRow(cells[i].p, cells[i].week)]

\* weekly_stats when player p of the roster has played weeks 1..played[p]:
\* one row per (week, player), sorted by week and then by player, as
\* groupby(["season","week","player"]).sum().reset_index() leaves it
WeeklyStats(played) ==
    LET n == Len(Roster)
        grid == [k \in 1..(MaxWeek * n) |->
                    [week |-> ((k - 1) \div n) + 1, p |-> ((k - 1) % n) + 1]]
    IN  StatRows(SelectSeq(grid, LAMBDA c : c.week <= played[c.p]))

\* one (bookmaker, market, outcome) of an odds response
Quote(bookmaker, market, description, name, point, price) ==
    [bookmaker |-> bookmaker, market |-> market, description |-> description,
     name |-> name, point |-> point, price |-> price]

\* the events request's answer
AllEvents == <<Game1, Game2>>

Weekdays == 0..6

SeqsUpTo(S, n) == UNION {[1..m -> S] : m \in 0..n}

\* the odds responses of k events to check, at most MaxLines quotes in all
Responses(k, pool) ==
    IF k = 0 THEN {<<>>}
    ELSE IF k = 1 THEN {<<r>> : r \in SeqsUpTo(pool, MaxLines)}
    ELSE UNION {{<<r1, r2>> : r2 \in SeqsUpTo(pool, MaxLines - Len(r1))} :
                    r1 \in SeqsUpTo(pool, MaxLines)}

EmptyResponses(k) == [i \in 1..k |-> <<>>]

\* The inputs of one run.  played gives, per player of the roster, the weeks
\* 1..played[p] the play-by-play feed has of that player.
Input(fail, weekday, responses, played) ==
    [fail |-> fail, weekday |-> weekday, events |-> AllEvents,
     responses |-> responses, played |-> played]

\* the inputs of a run on one weekday: every response over pool and every
\* table of tables with no outside failure, and each outside failure once
InputsOn(weekday, pool, tables, fails) ==
    LET k == Len(EventsToCheck(AllEvents, weekday)) IN
    IF k = 0 THEN {Input("none", weekday, <<>>, <<0, 0, 0>>)}
    ELSE {Input("none", weekday, rs, t) : rs \in Responses(k, pool), t \in tables}
         \cup {Input(f, weekday, EmptyResponses(k), <<0, MaxWeek, 0>>) : f \in fails}

\* ------------------------------------------------------- one run's result
\* What the try block of fetch_nfl_props arrives at: kind "nogames" (the
\* early return), "ok" (the snapshot to publish) or "raised" (an exception,
\* error being str(e)).
Result(kind, error, current_week, games, props, total_games) ==
    [kind |-> kind, error |-> error, current_week |-> current_week,
     games |-> games, props |-> props, total_games |-> total_games]

Exception(msg) == Result("raised", msg, NaN, <<>>, <<>>, 0)

NotRun == Result("none", "", NaN, <<>>, <<>>, 0)

\* The try block on the inputs of one run.  in.fail names the call that
\* raises for a reason outside the program (a request that fails, the
\* play-by-play download, pandas), "none" when no such call does.
RunResult(in) ==
    IF in.fail = "events" THEN Exception("events request failed")
    ELSE LET events_to_check == EventsToCheck(in.events, in.weekday) IN
    IF events_to_check = <<>> THEN Result("nogames", "", NaN, <<>>, <<>>, 0)
    ELSE IF in.fail = "odds" THEN Exception("odds request failed")
    ELSE LET props == CollectProps(events_to_check, in.responses) IN
    IF in.fail = "pbp" THEN Exception("play-by-play load failed")
    ELSE LET weekly_stats == WeeklyStats(in.played)
             current_week == CurrentWeek(weekly_stats)
             filtered == FilterQualifying(props, weekly_stats, current_week)
         IN
    IF filtered.raised # None THEN Exception(filtered.raised[1])
    ELSE IF in.fail = "dedup" THEN Exception("drop_duplicates failed")
    ELSE LET qualifying == Deduplicate(filtered.qualifying) IN
    \* int(current_week) inside the dict literal of the final publication
    IF current_week = NaN THEN Exception("cannot convert float NaN to integer")
    ELSE Result("ok", "", current_week, GamesInfo(events_to_check), qualifying,
                Len(events_to_check))

\* inputs of the runs of the service
ServiceQuotes ==
    {Quote("draftkings", "player_reception_yds_alternate", Some(GarrettWilson), "Over", 495, Some(-180)),
     Quote("draftkings", "player_reception_yds_alternate", Some(GarrettWilson), "Over", 905, Some(-180)),
     Quote("draftkings", "player_reception_yds_alternate", None, "Over", 495, Some(-180))}

ServiceTables == {<<0, 0, 0>>, <<0, MaxWeek, 0>>}

ServiceInputs ==
    {Input("events", 0, <<>>, <<0, 0, 0>>)}
    \cup UNION {InputsOn(d, ServiceQuotes, ServiceTables, {"odds", "pbp", "dedup"}) :
                   d \in Weekdays}

\* what the try block arrives at, over the inputs of the service
ServiceResults == {RunResult(in) : in \in ServiceInputs}

\* ------------------------------------------------------------- the state
VARIABLES
    latest_props_data,  \* the global the readers serve
    writer,             \* per core field, the run (clock tick) that wrote it
    data_lock,          \* "free" or the holder of data_lock
    pc,                 \* where the current call of fetch_nfl_props is
    pending,            \* the Result of the current or the last call
    clock,              \* runs started so far; the tick stamped as now
    serving,            \* app.run has been reached: the first run returned
    observed,           \* the last value a reader returned, None before
    run_in,             \* the Input of a run fixed in advance, or None
    ev_in,              \* arguments of one qualifies_strong call, or None
    ev_out              \* what that call returned, None before

service_vars == <<latest_props_data, writer, data_lock, pc, pending, clock, serving>>
vars == <<latest_props_data, writer, data_lock, pc, pending, clock, serving,
          observed, run_in, ev_in, ev_out>>

InitService ==
    /\ latest_props_data = InitialData
    /\ writer = [f \in CoreFields |-> 0]
    /\ data_lock = "free"
    /\ pc = "idle"
    /\ pending = NotRun
    /\ clock = 0
    /\ serving = FALSE
    /\ observed = None

Init ==
    /\ InitService
    /\ run_in = None
    /\ ev_in = None
    /\ ev_out = None

\* where the try block leaves the call
PcAfter(res) ==
    IF res.kind = "nogames" THEN "publish_nogames"
    ELSE IF res.kind = "ok" THEN "publish"
    ELSE "except"

\* lines 78-238 and the exits of the try block: the scheduler (or
\* init_scheduler) calls fetch_nfl_props and the try block runs up to the
\* statement that touches latest_props_data
FetchBody ==
    /\ pc = "idle"
    /\ clock < MaxRuns
    /\ \E res \in ServiceResults :
          /\ pending' = res
          /\ pc' = PcAfter(res)
    /\ clock' = clock + 1
    /\ UNCHANGED <<latest_props_data, writer, data_lock, serving, observed,
                   run_in, ev_in, ev_out>>

\* lines 92-99: with data_lock, rebind the global to the no-games dict
PublishNoGames ==
    /\ pc = "publish_nogames"
    /\ data_lock = "free"
    /\ latest_props_data' = NoGamesData(clock)
    /\ writer' = [f \in CoreFields |-> clock]
    /\ pc' = "idle"
    /\ serving' = TRUE
    /\ UNCHANGED <<data_lock, pending, clock, observed, run_in, ev_in, ev_out>>

\* lines 239-253: with data_lock, rebind the global to the new snapshot
PublishResult ==
    /\ pc = "publish"
    /\ data_lock = "free"
    /\ latest_props_data' = SuccessData(clock, pending)
    /\ writer' = [f \in CoreFields |-> clock]
    /\ pc' = "idle"
    /\ serving' = TRUE
    /\ UNCHANGED <<data_lock, pending, clock, observed, run_in, ev_in, ev_out>>

\* the value line 260 stores in the published dict
ErrorUpdate(data, msg) == [data EXCEPT !.error = Some(msg)]

\* line 261 left out: the handler records the error only
LastUpdatedUpdate_Stale(data, t) == data

\* the value line 261 stores in the published dict
LastUpdatedUpdate(data, t) == [data EXCEPT !.last_updated = Some(t)]

\* lines 257-260: the handler takes data_lock and sets the error key of the
\* dict that is published
ExceptSetError ==
    /\ pc = "except"
    /\ data_lock = "free"
    /\ data_lock' = "fetch_nfl_props"
    /\ latest_props_data' = ErrorUpdate(latest_props_data, pending.error)
    /\ writer' = [writer EXCEPT !.error = clock]
    /\ pc' = "except_last_updated"
    /\ UNCHANGED <<pending, clock, serving, observed, run_in, ev_in, ev_out>>

\* line 261: it sets the last_updated key and releases data_lock
ExceptSetLastUpdated ==
    /\ pc = "except_last_updated"
    /\ latest_props_data' = LastUpdatedUpdate(latest_props_data, clock)
    /\ writer' = [writer EXCEPT !.last_updated = clock]
    /\ data_lock' = "free"
    /\ pc' = "idle"
    /\ serving' = TRUE
    /\ UNCHANGED <<pending, clock, observed, run_in, ev_in, ev_out>>

\* ------------------------------------------------------------ the readers
\* dt.strftime("%I:%M %p ET") of a stored timestamp
FormatLastUpdated(t) == <<"%I:%M %p ET", t>>

\* props_by_game of index: the props of each game, in list order
PropsByGame(props) ==
    [g \in {props[i].game : i \in 1..Len(props)} |->
        SelectSeq(props, LAMBDA q : q.game = g)]

\* the template data index renders, from the copy taken under data_lock
IndexData(data) ==
    [shown |-> data,
     last_updated_formatted |->
        IF data.last_updated # None
        THEN FormatLastUpdated(data.last_updated[1]) ELSE <<"Never">>,
     props_by_game |-> PropsByGame(data.props)]

\* what a reader returned, with the run that wrote each field it read
Observation(reader, data, wrote) ==
    Some([reader |-> reader, data |-> data, writer |-> wrote])

\* lines 493-515: GET /
Index ==
    /\ serving
    /\ data_lock = "free"
    /\ observed' = Observation("index", IndexData(latest_props_data), writer)
    /\ UNCHANGED <<service_vars, run_in, ev_in, ev_out>>

\* lines 518-521: GET /api/props
ApiProps ==
    /\ serving
    /\ data_lock = "free"
    /\ observed' = Observation("api_props", latest_props_data, writer)
    /\ UNCHANGED <<service_vars, run_in, ev_in, ev_out>>

\* lines 524-526: GET /health, which reads the global without data_lock
Health ==
    /\ serving
    /\ observed' = Observation("health",
                               [status |-> "healthy",
                                last_updated |-> latest_props_data.last_updated],
                               [last_updated |-> writer.last_updated])
    /\ UNCHANGED <<service_vars, run_in, ev_in, ev_out>>

Next ==
    \/ FetchBody
    \/ PublishNoGames
    \/ PublishResult
    \/ ExceptSetError
    \/ ExceptSetLastUpdated
    \/ Index
    \/ ApiProps
    \/ Health

\* the service: runs of fetch_nfl_props one after the other, and the readers
Spec == Init /\ [][Next]_vars

\* --------------------------------------------- one run on given inputs
RunQuotes ==
    {Quote("draftkings", "player_reception_yds_alternate", Some(GarrettWilson), "Over", 495, Some(-180)),
     Quote("fanduel", "player_reception_yds_alternate", Some(GarrettWilson), "Over", 495, Some(-165)),
     Quote("draftkings", "player_reception_yds_alternate", Some(GarrettWilson), "Over", 555, Some(-180)),
     Quote("draftkings", "player_reception_yds_alternate", Some(GarrettWilson), "Under", 905, Some(-180)),
     Quote("draftkings", "player_reception_yds_alternate", None, "Over", 495, Some(-180)),
     Quote("draftkings", "player_reception_yds_alternate", Some(EmptyName), "Over", 495, Some(-180)),
     Quote("draftkings", "player_reception_yds_alternate", Some(ZachSmith), "Over", 495, Some(-180)),
     Quote("draftkings", "player_receptions_alternate", Some(GarrettWilson), "Over", 25, Some(-200)),
     Quote("draftkings", "player_pass_tds_alternate", Some(GarrettWilson), "Over", 35, Some(-150)),
     Quote("draftkings", "player_reception_yds_alternate", Some(GarrettWilson), "Over", 495, Some(-120))}

RunTables == {<<a, g, r>> : a \in {0, MaxWeek}, g \in 0..MaxWeek, r \in {0, 1}}

\* a Monday (the first game only), a Tuesday (no game) and a Friday (both)
RunWeekdays == {0, 1, 4}

InitRun ==
    /\ InitService
    /\ \E d \in RunWeekdays : \E in \in InputsOn(d, RunQuotes, RunTables, {}) :
          run_in = Some(in)
    /\ ev_in = None
    /\ ev_out = None

\* the try block of the one call, on the inputs fixed at the start
RunOnce ==
    /\ pc = "idle"
    /\ clock = 0
    /\ run_in # None
    /\ pending' = RunResult(run_in[1])
    /\ pc' = PcAfter(RunResult(run_in[1]))
    /\ clock' = clock + 1
    /\ UNCHANGED <<latest_props_data, writer, data_lock, serving, observed,
                   run_in, ev_in, ev_out>>

NextRun ==
    \/ RunOnce
    \/ PublishNoGames
    \/ PublishResult
    \/ ExceptSetError
    \/ ExceptSetLastUpdated

\* one call of fetch_nfl_props whose inputs the state records
SpecRun == InitRun /\ [][NextRun]_vars

\* --------------------------------------- one call of qualifies_strong
EvalNames == {Some(GarrettWilson), Some(ZachSmith), Some(EmptyName), None}

EvalMarkets ==
    {"player_reception_yds_alternate", "player_receptions_alternate",
     "player_pass_tds_alternate"}

EvalLines == {25, 35, 40, 495, 500, 555, 600, 905, 1205}

EvalTables == [1..Len(Roster) -> 0..MaxWeek]

EvalInputs ==
    [player : EvalNames, market : EvalMarkets, line : EvalLines,
     side : {"Over", "Under"}, played : EvalTables]

InitEval ==
    /\ InitService
    /\ run_in = None
    /\ ev_in \in {Some(a) : a \in EvalInputs}
    /\ ev_out = None

\* line 217, as the loop of step 7 calls it for one prop
Evaluate ==
    /\ ev_in # None
    /\ ev_out = None
    /\ LET a == ev_in[1]
           weekly_stats == WeeklyStats(a.played)
       IN  ev_out' = Some(qualifies_strong(a.player, market_to_stat[a.market], a.line,
                                           a.side, a.market, weekly_stats,
                                           CurrentWeek(weekly_stats)))
    /\ UNCHANGED <<service_vars, observed, run_in, ev_in>>

NextEval == Evaluate

\* qualifies_strong applied to every argument of the bounded sets
SpecEval == InitEval /\ [][NextEval]_vars

\* ================================================================ claims

\* ---------------------------------------------------------------- C1
\* C1: between runs, whenever the published error field is non-null the
\* published props list is empty (the props of an earlier run never stay next
\* to the error of a later one).
C1_ErrorImpliesNoProps ==
    (pc = "idle" /\ latest_props_data.error # None) =>
        latest_props_data.props = <<>>

\* ---------------------------------------------------------------- C2
\* C2: every value index or api_props returns is a snapshot whose fields were
\* all written by one and the same run (or is the initial snapshot).
C2_ObservedFromOneRun ==
    observed # None =>
        \A f, g \in DOMAIN observed[1].writer :
            observed[1].writer[f] = observed[1].writer[g]

\* ---------------------------------------------------------------- C3
\* C3: a call whose try block raised, at whichever step, has returned with
\* the published error set to that exception's text and the published
\* last_updated set to the time of that attempt.
C3_FailureRecorded ==
    (pc = "idle" /\ pending.kind = "raised") =>
        /\ latest_props_data.error = Some(pending.error)
        /\ latest_props_data.last_updated = Some(clock)

\* C3, its case: a run that follows a successful one has failed inside the
\* qualification step and has returned.
C3_Witness ==
    /\ pc = "idle"
    /\ clock = 2
    /\ pending.kind = "raised"
    /\ pending.error = "'NoneType' object has no attribute 'split'"
    /\ latest_props_data.props # <<>>

\* ------------------------------------------- the recorded run, for C4, C5, C8
\* the run whose inputs the state records has returned
RunReturned == run_in # None /\ pc = "idle" /\ clock = 1

RunEvents == EventsToCheck(run_in[1].events, run_in[1].weekday)

RunStats == WeeklyStats(run_in[1].played)

\* the in-range quotes of one event, with the bookmaker that made each
OffersOf(ev, game_data) ==
    LET kept == SelectSeq(game_data, LAMBDA o : InOddsRange(o.price))
    IN  [i \in 1..Len(kept) |->
            [game |-> Matchup(ev), bookmaker |-> kept[i].bookmaker,
             market |-> kept[i].market, player |-> kept[i].description,
             side |-> kept[i].name, line |-> kept[i].point,
             odds |-> kept[i].price[1]]]

RECURSIVE OffersFrom(_)
OffersFrom(i) ==
    IF i > Len(RunEvents) THEN <<>>
    ELSE OffersOf(RunEvents[i], run_in[1].responses[i]) \o OffersFrom(i + 1)

\* the candidate lines of the recorded run, in the order they are collected
RunOffers == OffersFrom(1)

\* what the evaluator says of one candidate line
Verdict(o) ==
    qualifies_strong(o.player, market_to_stat[o.market], o.line, o.side, o.market,
                     RunStats, CurrentWeek(RunStats))

LineQualifies(o) == Verdict(o).raised = None /\ Verdict(o).ok

Published == latest_props_data.props

\* the identifying tuple of a published entry and of a candidate line
EntryKey(q) == <<q.player, q.market, q.line, q.side, q.game>>
OfferKey(o) == <<o.player, MarketTitle(o.market), o.line, o.side, o.game>>
OfferShortKey(o) == <<o.player, MarketTitle(o.market), o.line, o.side>>
EntryShortKey(q) == <<q.player, q.market, q.line, q.side>>

\* ---------------------------------------------------------------- C4
\* C4: a run with events and statistics completes with a null error field
\* whatever its candidate lines are, and publishes every line that qualifies;
\* a line that cannot be evaluated is only left out.
C4_PerLineFailuresAbsorbed ==
    (RunReturned /\ RunEvents # <<>> /\ RunStats # <<>>) =>
        /\ latest_props_data.error = None
        /\ \A i \in 1..Len(RunOffers) :
              LineQualifies(RunOffers[i]) =>
                  \E j \in 1..Len(Published) :
                      EntryShortKey(Published[j]) = OfferShortKey(RunOffers[i])

\* ---------------------------------------------------------------- C5
\* C5: every supporting weekly value of every published prop is strictly
\* greater than the prop's line when the side is Over and strictly less than
\* it when the side is Under.
C5_SupportingValuesBeatLine ==
    \A j \in 1..Len(Published) :
        \A k \in 1..Len(Published[j].weekly_values) :
            LET val == Published[j].weekly_values[k] IN
            /\ Published[j].side = "Over" => 10 * val > Published[j].line
            /\ Published[j].side = "Under" => 10 * val < Published[j].line

\* C5, its case: a run has published props of two markets, with their values
C5_Witness ==
    /\ RunReturned
    /\ Len(Published) = 2
    /\ Published[1].market # Published[2].market
    /\ Published[1].weekly_values # <<>>

\* ---------------------------------------------------------------- C8
PricesSortedDescending(quotes) ==
    \A i, j \in 1..Len(quotes) : i < j => quotes[i] >= quotes[j]

\* the distinct (source identity, price) quotes of the qualifying candidate
\* lines with one identifying tuple
QuotesFor(key) ==
    {<<RunOffers[i].bookmaker, RunOffers[i].odds>> :
        i \in {k \in 1..Len(RunOffers) :
                  OfferKey(RunOffers[k]) = key /\ LineQualifies(RunOffers[k])}}

\* the prices a published entry carries
EntryPrices(q) == <<q.odds>>

\* C8 as claimed: for every qualifying candidate line the published list has
\* exactly one entry with its (player, market, line, side, matchup), and that
\* entry carries each distinct (source, price) quote of the tuple once, by
\* price descending.
C8_OneEntryWithEveryQuote ==
    (RunReturned /\ pending.kind = "ok") =>
        \A i \in 1..Len(RunOffers) :
            LineQualifies(RunOffers[i]) =>
                LET key == OfferKey(RunOffers[i])
                    same == {j \in 1..Len(Published) : EntryKey(Published[j]) = key}
                IN  /\ Cardinality(same) = 1
                    /\ \A j \in same :
                          /\ Len(EntryPrices(Published[j])) = Cardinality(QuotesFor(key))
                          /\ {EntryPrices(Published[j])[n] :
                                 n \in 1..Len(EntryPrices(Published[j]))}
                                = {q[2] : q \in QuotesFor(key)}
                          /\ PricesSortedDescending(EntryPrices(Published[j]))

\* the first qualifying candidate line with the short key of line i
FirstWithKey(i) ==
    CHOOSE k \in 1..Len(RunOffers) :
        /\ LineQualifies(RunOffers[k])
        /\ OfferShortKey(RunOffers[k]) = OfferShortKey(RunOffers[i])
        /\ \A m \in 1..(k - 1) :
              ~(LineQualifies(RunOffers[m])
                /\ OfferShortKey(RunOffers[m]) = OfferShortKey(RunOffers[i]))

\* C8 amended: for every qualifying candidate line the published list has
\* exactly one entry with its (player, market, line, side), the matchup not
\* being compared; the entry is the first such line collected, with that
\* line's matchup and its single price; and nothing else is published.
C8_FirstQuoteKept ==
    (RunReturned /\ pending.kind = "ok") =>
        /\ \A i \in 1..Len(RunOffers) :
              LineQualifies(RunOffers[i]) =>
                  LET same == {j \in 1..Len(Published) :
                                  EntryShortKey(Published[j]) = OfferShortKey(RunOffers[i])}
                      first == RunOffers[FirstWithKey(i)]
                  IN  /\ Cardinality(same) = 1
                      /\ \A j \in same :
                            /\ Published[j].odds = first.odds
                            /\ Published[j].game = first.game
        /\ \A j \in 1..Len(Published) :
              \E i \in 1..Len(RunOffers) :
                  /\ LineQualifies(RunOffers[i])
                  /\ EntryKey(Published[j]) = OfferKey(RunOffers[i])

\* C8, its case: two bookmakers quoted one qualifying line of one matchup at
\* two prices, and the run has published
C8_Witness ==
    /\ RunReturned
    /\ pending.kind = "ok"
    /\ Len(RunOffers) = 2
    /\ LineQualifies(RunOffers[1])
    /\ OfferKey(RunOffers[1]) = OfferKey(RunOffers[2])
    /\ RunOffers[1].bookmaker # RunOffers[2].bookmaker
    /\ RunOffers[1].odds = -180
    /\ RunOffers[2].odds = -165
    /\ Len(Published) = 1

\* ------------------------------- the recorded evaluation, for C6, C7, C9, C10
Evaluated == ev_in # None /\ ev_out # None

EvalStats == WeeklyStats(ev_in[1].played)

EvalColumn == market_to_stat[ev_in[1].market]

\* the display name is a string with at least one word
Evaluable == ev_in[1].player # None /\ Split(ev_in[1].player[1]) # <<>>

EvalLastName == Split(ev_in[1].player[1])[Len(Split(ev_in[1].player[1]))]

\* the canonical identity of the display name by the first-initial.last-name
\* rule: "Garrett Wilson" gives "G.Wilson"
Identity == <<ev_in[1].player[1][1], ".">> \o EvalLastName

\* the game-week rows of that identity, oldest week first
OwnRows == SelectSeq(EvalStats, LAMBDA r : r.player = Identity)

\* the rows whose player name has the last word of the display name in it
LastNameRows == SelectSeq(EvalStats, LAMBDA r : Contains(r.player, EvalLastName))

\* the values of the 4 most recent own game-weeks, most recent first
Recent4 == [k \in 1..4 |-> OwnRows[Len(OwnRows) - k + 1][EvalColumn]]

\* the direction test of a value against a line, with no margin
Beats(val, line, side) ==
    IF side = "Over" THEN 10 * val > line ELSE 10 * val < line

\* twelve tenths for a yardage market, thirteen for attempts and receptions,
\* ten for the others
CushionTenths(market) ==
    IF HasYds(market) THEN 12
    ELSE IF HasAttemptsOrReceptions(market) THEN 13 ELSE 10

\* ---------------------------------------------------------------- C6
\* C6 as claimed: for a resolved player with at least 4 recorded game-weeks
\* the evaluator qualifies a line exactly when each of the 4 most recent
\* values strictly beats the line in the line's direction, with no margin.
C6_QualifiesIffRecent4Beat ==
    (Evaluated /\ Evaluable /\ Len(OwnRows) >= 4) =>
        (ev_out[1].ok <=>
            \A k \in 1..4 : Beats(Recent4[k], ev_in[1].line, ev_in[1].side))

\* every value of the rows, times 100, is above the cushioned line in
\* thousandths
AllBeatCushion(rows, stat_col, cushioned) ==
    \A i \in 1..Len(rows) : 100 * rows[i][stat_col] > cushioned

\* C6 amended: for a line with enough matched rows the evaluator qualifies it
\* exactly when the side is Over and every matched weekly value of the season
\* is strictly greater than the line times 1.2 (yardage markets), times 1.3
\* (attempts and receptions markets) or times 1 (the others); an Under line
\* never qualifies and a value equal to the cushioned line never does.
C6_QualifiesIffOverAndAllBeatCushion ==
    (Evaluated /\ Evaluable /\ LastNameRows # <<>>
       /\ Len(LastNameRows) >= CurrentWeek(EvalStats) - 1) =>
        (ev_out[1].ok <=>
            /\ ev_in[1].side = "Over"
            /\ AllBeatCushion(LastNameRows, EvalColumn,
                              CushionTenths(ev_in[1].market) * ev_in[1].line))

\* C6, its case: weekly receiving yards 80, 95, 60, 110 (most recent first)
\* against Over 55.5 have been evaluated, and the line was rejected
C6_Witness ==
    /\ Evaluated
    /\ ev_in[1].player = Some(GarrettWilson)
    /\ ev_in[1].market = "player_reception_yds_alternate"
    /\ ev_in[1].side = "Over"
    /\ ev_in[1].line = 555
    /\ ev_in[1].played = <<0, 4, 0>>
    /\ ev_out[1].vals = <<110, 60, 95, 80>>
    /\ ~ev_out[1].ok

C9_ValuesAreRecent4 ==
    (Evaluated /\ Evaluable /\ Len(OwnRows) >= 4) => ev_out[1].vals = Recent4

\* vals are the values of rows, one per row and in their order, and the
\* rows go from the oldest week to the most recent
ValuesOldestFirst(vals, rows, stat_col) ==
    /\ Len(vals) = Len(rows)
    /\ \A i \in 1..Len(rows) : vals[i] = rows[i][stat_col]
    /\ \A i, j \in 1..Len(rows) : i < j => rows[i].week <= rows[j].week

\* C9 amended: the supporting values returned are the values of all the
\* matched rows of the season, oldest week first, whether or not the
\* threshold test passes; the list is empty when there is no matched row or
\* fewer than current week - 1 of them.
C9_ValuesAreAllRowsOldestFirst ==
    (Evaluated /\ Evaluable) =>
        IF LastNameRows = <<>> \/ Len(LastNameRows) < CurrentWeek(EvalStats) - 1
        THEN ev_out[1].vals = <<>>
        ELSE ValuesOldestFirst(ev_out[1].vals, LastNameRows, EvalColumn)

\* C9, its case: a player with 5 recorded weeks has been evaluated against a
\* line the values do not all beat, and 5 values came back
C9_Witness ==
    /\ Evaluated
    /\ ev_in[1].player = Some(GarrettWilson)
    /\ ev_in[1].market = "player_reception_yds_alternate"
    /\ ev_in[1].side = "Over"
    /\ ev_in[1].line = 905
    /\ ev_in[1].played = <<0, 5, 0>>
    /\ ev_out[1].vals = <<110, 60, 95, 80, 70>>
    /\ ~ev_out[1].ok

\* ---------------------------------------------------------------- C10
\* vals has no more values than there are rows, and each is a value of a row
DrawnFrom(vals, rows, stat_col) ==
    /\ Len(vals) <= Len(rows)
    /\ \A k \in 1..Len(vals) : \E i \in 1..Len(rows) : vals[k] = rows[i][stat_col]

\* C10: the supporting values of an evaluated line are values of rows of the
\* one canonical identity the display name resolves to, and of no other row.
C10_OnlyOwnRows ==
    (Evaluated /\ Evaluable) =>
        DrawnFrom(ev_out[1].vals, OwnRows, EvalColumn)

\* ---------------------------------------------------------------- C11
\* the sum of the values, added from the last one backwards
RECURSIVE TotalOf(_, _)
TotalOf(values, k) == IF k = 0 THEN 0 ELSE values[k] + TotalOf(values, k - 1)

\* avg (in tenths) is total / n to one decimal place: no tenth is nearer to the
\* mean, and of two equally near tenths it is the even one (86.25 gives 86.2)
IsMeanToOneDecimal(avg, total, n) ==
    LET excess == 10 * total - avg * n
    IN  /\ n > 0
        /\ 2 * excess <= n
        /\ -2 * excess <= n
        /\ (2 * excess = n \/ -2 * excess = n) => avg % 2 = 0

EntryAverageIsMean(e) ==
    IsMeanToOneDecimal(e.season_avg, TotalOf(e.weekly_values, Len(e.weekly_values)),
                       Len(e.weekly_values))

\* C11: the season_avg of every published prop is the arithmetic mean of that
\* prop's supporting weekly values rounded to one decimal place.
C11_SeasonAvgIsRoundedMean ==
    RunReturned =>
        \A j \in 1..Len(Published) : EntryAverageIsMean(Published[j])

\* the run publishes a prop supported by 110, 60, 95, 80, whose mean 86.25 lies
\* midway between two tenths, with season_avg 86.2
C11_Witness ==
    /\ RunReturned
    /\ \E j \in 1..Len(Published) :
           /\ Published[j].weekly_values = <<110, 60, 95, 80>>
           /\ Published[j].season_avg = 862

====
